---- MODULE Spec2Model ----
(***************************************************************************)
(* King Phisher client, "View Campaign" tabs                               *)
(* (king_phisher/client/tabs/campaign.py).                                 *)
(*                                                                         *)
(* One CampaignViewTab holding the dashboard tab and one generic tab (any  *)
(* of the four CampaignViewGenericTab subclasses), the GTK main thread     *)
(* that runs the signal handlers and the idle callbacks, the loader        *)
(* threads the tabs start, and the remote tables behind the RPC client.    *)
(***************************************************************************)
EXTENDS Integers, Sequences, FiniteSets, TLC

\* ------------------------------------------------------------------ bounds
\* the wall clock runs over 0..MaxTime, in units of the configured
\* gui.refresh_frequency: a load can be seen fresh and can be seen stale
MaxTime == 1
\* ids of the rows of the tab's remote table
MaxRows == 2
\* thread objects a tab can hold at once (live or not yet collected)
MaxThreads == 2
\* graphs the dashboard holds (self.graphs)
MaxGraphs == 2

\* ------------------------------------------------------------ name spaces
DASH == "dashboard"
GEN == "generic"
Tabs == {DASH, GEN}
GenericTabs == {"messages", "visits", "credentials", "deaddrop_connections"}
RowIds == 1..MaxRows
ThreadIds == 1..MaxThreads
Graphs == 1..MaxGraphs

\* ------------------------------------------------------- python values
PyNone == [t |-> "NoneType"]
PyStr(s) == [t |-> "str", s |-> s]
PyInt(i) == [t |-> "int", i |-> i]
PyDatetime(n) == [t |-> "datetime", ts |-> n]

\* str(x)
str(x) ==
    CASE x.t = "str" -> x
      [] x.t = "int" -> PyStr(ToString(x.i))
      [] x.t = "datetime" -> PyStr("datetime(" \o ToString(x.ts) \o ")")
      [] OTHER -> PyStr("None")

\* utilities.format_datetime: '' for anything that is no datetime
format_datetime(dt) ==
    IF dt.t = "datetime" THEN PyStr("2014-01-0" \o ToString(dt.ts) \o " 00:00:00")
    ELSE PyStr("")

\* ------------------------------------------------------- remote tables
\* the row of the referenced table (messages, deaddrop_deployments) a row
\* of the tab's table points to
ParentOf(i) == 1
ParentIds == {ParentOf(i) : i \in RowIds}

\* the remote row with id i of table tbl, as rpc.remote_table yields it
RemoteRow(tbl, i) ==
    CASE tbl = "messages" ->
           [id |-> i,
            target_email |-> PyStr("user" \o ToString(i) \o "@example.com"),
            sent |-> PyDatetime(i),
            opened |-> IF i % 2 = 0 THEN PyDatetime(i) ELSE PyNone,
            trained |-> (i % 2 = 1)]
      [] tbl = "visits" ->
           [id |-> i,
            message_id |-> ParentOf(i),
            visitor_ip |-> PyStr("10.0.0." \o ToString(i)),
            visitor_details |-> IF i % 2 = 0 THEN PyStr("Mozilla") ELSE PyNone,
            visit_count |-> PyInt(i),
            first_visit |-> PyDatetime(i),
            last_visit |-> PyDatetime(i)]
      [] tbl = "credentials" ->
           [id |-> i,
            message_id |-> ParentOf(i),
            username |-> IF i % 2 = 0 THEN PyStr("alice") ELSE PyNone,
            password |-> PyStr("secret" \o ToString(i)),
            submitted |-> PyDatetime(i)]
      [] tbl = "deaddrop_connections" ->
           [id |-> i,
            deployment_id |-> ParentOf(i),
            visit_count |-> PyInt(i),
            visitor_ip |-> PyStr("10.0.0." \o ToString(i)),
            local_username |-> IF i % 2 = 0 THEN PyStr("bob") ELSE PyNone,
            local_hostname |-> PyStr("host" \o ToString(i)),
            local_ip_addresses |-> PyNone,
            first_visit |-> PyDatetime(i),
            last_visit |-> PyNone]

\* the row of the deaddrop_deployments table with id p
DeploymentRow(p) == [id |-> p, destination |-> PyStr("drop" \o ToString(p))]

\* view_columns, per subclass
view_columns(cls) ==
    CASE cls = "messages" -> <<"Email", "Sent", "Opened", "Trained">>
      [] cls = "visits" ->
           <<"Email", "Visitor IP", "Visitor Details", "Visit Count", "First Visit", "Last Visit">>
      [] cls = "credentials" -> <<"Email", "Username", "Password", "Submitted">>
      [] cls = "deaddrop_connections" ->
           <<"Destination", "Visit Count", "External IP", "Username", "Hostname",
             "Local IP Addresses", "First Hit", "Last Hit">>

\* the result of format_row_data when it returns None
NoRow == <<PyStr("format_row_data returned None")>>

\* format_row_data of the subclass cls on remote row `row`; `parents` is the
\* set of ids present in the referenced table
format_row_data(cls, row, parents) ==
    CASE cls = "messages" ->
           <<row.target_email, format_datetime(row.sent), format_datetime(row.opened),
             IF row.trained THEN PyStr("Yes") ELSE PyStr("")>>
      [] cls = "visits" ->
           IF row.message_id \notin parents THEN NoRow
           ELSE <<RemoteRow("messages", row.message_id).target_email, row.visitor_ip,
                  row.visitor_details, row.visit_count,
                  format_datetime(row.first_visit), format_datetime(row.last_visit)>>
      [] cls = "credentials" ->
           IF row.message_id \notin parents THEN NoRow
           ELSE <<RemoteRow("messages", row.message_id).target_email, row.username,
                  row.password, format_datetime(row.submitted)>>
      [] cls = "deaddrop_connections" ->
           IF row.deployment_id \notin parents THEN NoRow
           ELSE <<DeploymentRow(row.deployment_id).destination, row.visit_count,
                  row.visitor_ip, row.local_username, row.local_hostname,
                  row.local_ip_addresses,
                  format_datetime(row.first_visit), format_datetime(row.last_visit)>>

\* variant of StoreRow: line 185 is missing, the id is not put in front
StoreRowWithoutId(row_id, row_data) ==
    [k \in 1..Len(row_data) |-> IF row_data[k].t = "NoneType" THEN PyStr("") ELSE str(row_data[k])]

\* lines 184-185: every value to a string, None to '', then the id in front
StoreRow(row_id, row_data) ==
    <<str(PyInt(row_id))>> \o
        [k \in 1..Len(row_data) |-> IF row_data[k].t = "NoneType" THEN PyStr("") ELSE str(row_data[k])]

\* the id a first-column string of the store stands for (the server parses it)
RowIdOf(s) == CHOOSE i \in RowIds : str(PyInt(i)) = s

\* ------------------------------------------------------------------ state
VARIABLES
    tab_class,          \* the subclass of the generic tab (its remote_table_name)
    refresh_frequency,  \* self.refresh_frequency, in clock units
    has_rpc,            \* hasattr(self.parent, 'rpc')
    now,                \* time.time()
    table,              \* ids of the rows of the remote table of the generic tab
    parents,            \* ids of the rows of the table its rows refer to
    last_load_time,     \* per tab
    loader_thread,      \* per tab: row_loader_thread / loader_thread, 0 is None
    threads,            \* per tab: the thread objects
    lock,               \* per tab: row_loader_thread_lock / loader_thread_lock is held
    is_destroyed,       \* the generic tab's is_destroyed event
    store,              \* the generic tab's Gtk.ListStore (cols = 0: no model yet)
    sensitive,          \* the 'sensitive' property of treeview_campaign
    graph_drawn,        \* per graph: its canvas has been drawn
    idle_queue,         \* GLib idle sources not yet dispatched
    gpc,                \* where the GTK main thread is
    gcall,              \* the load_campaign_information call it is in
    gpending,           \* the calls the running handler still has to make
    dialog,             \* the warning dialog that is open ('' for none)
    csv_file,           \* the file signal_button_clicked_export wrote
    timeout_source      \* the GLib timeout of line 348 is scheduled

vars == <<tab_class, refresh_frequency, has_rpc, now, table, parents,
          last_load_time, loader_thread, threads, lock, is_destroyed, store, sensitive,
          graph_drawn, idle_queue, gpc, gcall, gpending, dialog, csv_file,
          timeout_source>>

config_vars == <<tab_class, refresh_frequency, timeout_source>>
remote_vars == <<table, parents>>
widget_vars == <<store, sensitive, graph_drawn>>
loader_vars == <<loader_thread, threads, lock>>
gui_vars == <<gpc, gcall, gpending, dialog>>

\* float('-inf'): below every time the clock can show by more than any refresh_frequency
NegInf == 0 - (2 * MaxTime + 1)

\* a thread object: where it is, the rows it still has to go through, the row it
\* hands to store.append, the rows it went through and what it did with each
\* (appended, or sent the delete RPC), the graph it is at and its info_cache
NoThread == [pc |-> "none", rows |-> <<>>, row |-> <<>>, done |-> <<>>, g |-> 0, cache |-> <<>>]
DeadThread == [pc |-> "dead", rows |-> <<>>, row |-> <<>>, done |-> <<>>, g |-> 0, cache |-> <<>>]
NoCall == [tab |-> "", force |-> FALSE, busy |-> FALSE]
Call(tb, f) == [tab |-> tb, force |-> f]
NoDialog == ""
NoFile == [written |-> FALSE]

\* the state after CampaignViewTab.__init__, the generic tab being one of `classes`
Start(classes) ==
    /\ tab_class \in classes
    /\ refresh_frequency = MaxTime
    /\ has_rpc = FALSE
    /\ now = 0
    /\ table = RowIds
    /\ parents = ParentIds
    /\ last_load_time = [tb \in Tabs |-> NegInf]
    /\ loader_thread = [tb \in Tabs |-> 0]
    /\ threads = [tb \in Tabs |-> [t \in ThreadIds |-> NoThread]]
    /\ lock = [tb \in Tabs |-> FALSE]
    /\ is_destroyed = FALSE
    /\ store = [cols |-> 0, rows |-> <<>>]
    /\ sensitive = TRUE
    /\ graph_drawn = [g \in Graphs |-> FALSE]
    /\ idle_queue = <<>>
    /\ gpc = "idle"
    /\ gcall = NoCall
    /\ gpending = <<>>
    /\ dialog = NoDialog
    /\ csv_file = NoFile
    /\ timeout_source = TRUE

Init == Start({"visits"})

\* ---------------------------------------------------------------- helpers
\* threading.Thread.is_alive()
is_alive(tb, t) == threads[tb][t].pc \notin {"none", "dead"}

\* variant of LoaderAlive: the test for a running thread is missing
LoaderAliveUnchecked(tb) == FALSE

\* isinstance(self.row_loader_thread, threading.Thread) and self.row_loader_thread.is_alive()
LoaderAlive(tb) == loader_thread[tb] # 0 /\ is_alive(tb, loader_thread[tb])

\* the threads of a tab that are running
AliveThreads(tb) == {t \in ThreadIds : is_alive(tb, t)}

\* slots a new thread object can take: those of no running thread (the object
\* the tab referred to before is dropped when the attribute is assigned)
FreeThreads(tb) == {t \in ThreadIds : ~is_alive(tb, t)}

\* variant of Fresh: the comparison is the wrong way round
FreshReversed(tb) == (now - last_load_time[tb]) > refresh_frequency

\* (time.time() - self.last_load_time) < self.refresh_frequency
Fresh(tb) == (now - last_load_time[tb]) < refresh_frequency

\* the first statement of load_campaign_information of a tab
Entry(tb) == IF tb = DASH THEN "d361" ELSE "g151"

\* a loader of the tab is alive and has sent its first request to the server (the
\* generic loader its remote_table request, the dashboard loader a graph.refresh)
Busy(tb) ==
    \E t \in ThreadIds :
        /\ is_alive(tb, t)
        /\ threads[tb][t].pc \notin {"l177", "w177", "l178"}
        /\ ~(threads[tb][t].pc = "d381" /\ threads[tb][t].g = 1)

\* the running handler calls load_campaign_information for each of `calls`; the
\* call is recorded with what the tab's loader was doing when it was made
Invoke(calls) ==
    /\ gcall' = [tab |-> Head(calls).tab, force |-> Head(calls).force,
                 busy |-> Busy(Head(calls).tab)]
    /\ gpending' = Tail(calls)
    /\ gpc' = Entry(Head(calls).tab)

\* load_campaign_information returns to its caller
Return ==
    IF gpending = <<>>
    THEN gpc' = "idle" /\ gcall' = NoCall /\ gpending' = <<>>
    ELSE Invoke(gpending)

\* the GTK main loop (the outer one or the one a modal dialog runs) is dispatching
MainLoop == gpc = "idle"
\* it is the outer main loop: no modal dialog keeps the user from the window
TopLevel == gpc = "idle" /\ dialog = NoDialog

\* ids as an ascending sequence
RECURSIVE SortedSeq(_)
SortedSeq(S) ==
    IF S = {} THEN <<>>
    ELSE LET m == CHOOSE x \in S : \A y \in S : x <= y
         IN <<m>> \o SortedSeq(S \ {m})

\* rpc.remote_table('campaign/' + remote_table_name, campaign_id): the rows of the
\* selected campaign, in the order of their ids
remote_table == SortedSeq(table)

\* ------------------------------------- CampaignViewGenericTab.load_campaign_information
\* variant of GenericLoadCheck: the time-to-live test does not look at `force`
GenericLoadCheckIgnoringForce ==
    /\ gpc = "g151"
    /\ IF Fresh(GEN) \/ LoaderAlive(GEN)
       THEN Return
       ELSE gpc' = "g155" /\ UNCHANGED <<gcall, gpending>>
    /\ UNCHANGED <<config_vars, has_rpc, now, remote_vars, last_load_time,
                   loader_vars, is_destroyed, widget_vars, idle_queue, dialog, csv_file>>

\* lines 151-154: the time-to-live test, then the thread-already-running test
GenericLoadCheck ==
    /\ gpc = "g151"
    /\ IF (~gcall.force /\ Fresh(GEN)) \/ LoaderAlive(GEN)
       THEN Return
       ELSE gpc' = "g155" /\ UNCHANGED <<gcall, gpending>>
    /\ UNCHANGED <<config_vars, has_rpc, now, remote_vars, last_load_time,
                   loader_vars, is_destroyed, widget_vars, idle_queue, dialog, csv_file>>

\* variant of GenericLoadStart: the store is not cleared (line 164 is missing)
GenericLoadStartKeepingRows ==
    /\ gpc = "g155"
    /\ ~lock[GEN]
    /\ FreeThreads(GEN) # {}
    /\ LET t == CHOOSE x \in FreeThreads(GEN) : \A y \in FreeThreads(GEN) : x <= y
       IN /\ loader_thread' = [loader_thread EXCEPT ![GEN] = t]
          /\ threads' = [threads EXCEPT ![GEN][t] = [NoThread EXCEPT !.pc = "l177"]]
    /\ lock' = [lock EXCEPT ![GEN] = TRUE]
    /\ store' = [cols |-> Len(view_columns(tab_class)) + 1, rows |-> store.rows]
    /\ gpc' = "g167"
    /\ UNCHANGED <<config_vars, has_rpc, now, remote_vars, last_load_time,
                   is_destroyed, sensitive, graph_drawn, idle_queue, gcall, gpending,
                   dialog, csv_file>>

\* lines 155-166: take the lock, create or clear the store, create and start the thread
GenericLoadStart ==
    /\ gpc = "g155"
    /\ ~lock[GEN]
    /\ FreeThreads(GEN) # {}
    /\ LET t == CHOOSE x \in FreeThreads(GEN) : \A y \in FreeThreads(GEN) : x <= y
       IN /\ loader_thread' = [loader_thread EXCEPT ![GEN] = t]
          /\ threads' = [threads EXCEPT ![GEN][t] = [NoThread EXCEPT !.pc = "l177"]]
    /\ lock' = [lock EXCEPT ![GEN] = TRUE]
    /\ store' = [cols |-> Len(view_columns(tab_class)) + 1, rows |-> <<>>]
    /\ gpc' = "g167"
    /\ UNCHANGED <<config_vars, has_rpc, now, remote_vars, last_load_time,
                   is_destroyed, sensitive, graph_drawn, idle_queue, gcall, gpending,
                   dialog, csv_file>>

\* lines 167-168: release the lock and return
GenericLoadRelease ==
    /\ gpc = "g167"
    /\ lock' = [lock EXCEPT ![GEN] = FALSE]
    /\ Return
    /\ UNCHANGED <<config_vars, has_rpc, now, remote_vars, last_load_time,
                   loader_thread, threads, is_destroyed, widget_vars, idle_queue, dialog,
                   csv_file>>

\* ----------------------------------- CampaignViewDashboardTab.load_campaign_information
\* lines 361-366: the time-to-live test, the test for parent.rpc, then the lock is
\* taken (an RLock that only this thread takes)
DashboardLoadCheck ==
    /\ gpc = "d361"
    /\ IF (~gcall.force /\ Fresh(DASH)) \/ ~has_rpc
       THEN Return /\ UNCHANGED lock
       ELSE /\ gpc' = "d367"
            /\ lock' = [lock EXCEPT ![DASH] = TRUE]
            /\ UNCHANGED <<gcall, gpending>>
    /\ UNCHANGED <<config_vars, has_rpc, now, remote_vars, last_load_time,
                   loader_thread, threads, is_destroyed, widget_vars, idle_queue, dialog,
                   csv_file>>

\* lines 367-370: inside the lock, test, create and start; leaving the block releases
DashboardLoadStart ==
    /\ gpc = "d367"
    /\ IF LoaderAlive(DASH)
       THEN UNCHANGED <<loader_thread, threads>>
       ELSE /\ FreeThreads(DASH) # {}
            /\ LET t == CHOOSE x \in FreeThreads(DASH) : \A y \in FreeThreads(DASH) : x <= y
               IN /\ loader_thread' = [loader_thread EXCEPT ![DASH] = t]
                  /\ threads' = [threads EXCEPT
                                   ![DASH][t] = [NoThread EXCEPT !.pc = "d381", !.g = 1]]
    /\ lock' = [lock EXCEPT ![DASH] = FALSE]
    /\ Return
    /\ UNCHANGED <<config_vars, has_rpc, now, remote_vars, last_load_time,
                   is_destroyed, widget_vars, idle_queue, dialog, csv_file>>

\* ------------------------------------------------ gui_utilities.glib_idle_add_wait
\* the calling thread queues the wrapper with GLib.idle_add and waits for it
glib_idle_add_wait(tb, t, waiting) ==
    /\ idle_queue' = Append(idle_queue, <<tb, t>>)
    /\ threads' = [threads EXCEPT ![tb][t].pc = waiting]

\* the main loop dispatches the oldest idle source whose thread waits at `waiting`
Dispatch(tb, waiting) ==
    /\ MainLoop
    /\ idle_queue # <<>>
    /\ Head(idle_queue)[1] = tb
    /\ threads[tb][Head(idle_queue)[2]].pc = waiting
    /\ idle_queue' = Tail(idle_queue)

\* --------------------------------- CampaignViewGenericTab.row_loader_thread_routine
\* line 177, in the loader: queue set_property('sensitive', False)
LoaderQueueInsensitive(t) ==
    /\ threads[GEN][t].pc = "l177"
    /\ glib_idle_add_wait(GEN, t, "w177")
    /\ UNCHANGED <<config_vars, has_rpc, now, remote_vars, last_load_time,
                   loader_thread, lock, is_destroyed, widget_vars, gui_vars, csv_file>>

\* line 177, in the main loop: the treeview becomes insensitive
RunSetInsensitive ==
    /\ Dispatch(GEN, "w177")
    /\ sensitive' = FALSE
    /\ threads' = [threads EXCEPT ![GEN][Head(idle_queue)[2]].pc = "l178"]
    /\ UNCHANGED <<config_vars, has_rpc, now, remote_vars, last_load_time,
                   loader_thread, lock, is_destroyed, store, graph_drawn, gui_vars,
                   csv_file>>

\* line 178: the remote table is fetched; without parent.rpc, or when the call
\* fails, the exception ends the thread
LoaderFetch(t) ==
    /\ threads[GEN][t].pc = "l178"
    /\ \E ok \in BOOLEAN :
          IF has_rpc /\ ok
          THEN threads' = [threads EXCEPT ![GEN][t].pc = "l179",
                                          ![GEN][t].rows = remote_table]
          ELSE threads' = [threads EXCEPT ![GEN][t] = DeadThread]
    /\ UNCHANGED <<config_vars, has_rpc, now, remote_vars, last_load_time,
                   loader_thread, lock, is_destroyed, widget_vars, idle_queue, gui_vars,
                   csv_file>>

\* variant of LoaderFormatRow: a row that formats to None is passed over, the delete
\* RPC of line 182 is not sent
LoaderFormatRowKeepingNone(t) ==
    /\ threads[GEN][t].pc = "l179"
    /\ threads[GEN][t].rows # <<>>
    /\ LET th == threads[GEN][t]
           row_id == Head(th.rows)
           row_data == format_row_data(tab_class, RemoteRow(tab_class, row_id), parents)
       IN \E ok \in BOOLEAN :
             IF ~ok /\ tab_class # "messages"
             THEN threads' = [threads EXCEPT ![GEN][t] = DeadThread]
             ELSE IF row_data = NoRow
             THEN threads' = [threads EXCEPT ![GEN][t].rows = Tail(th.rows)]
             ELSE IF is_destroyed
             THEN threads' = [threads EXCEPT ![GEN][t] = DeadThread]
             ELSE threads' = [threads EXCEPT
                                ![GEN][t].pc = "l188",
                                ![GEN][t].rows = Tail(th.rows),
                                ![GEN][t].done = Append(@, [id |-> row_id, rpc |-> ""]),
                                ![GEN][t].row = StoreRow(row_id, row_data)]
    /\ UNCHANGED <<config_vars, has_rpc, now, remote_vars, last_load_time,
                   loader_thread, lock, is_destroyed, widget_vars, idle_queue, gui_vars,
                   csv_file>>

\* variant of LoaderFormatRow: the thread does not look at is_destroyed (lines 186-187)
LoaderFormatRowUnaware(t) ==
    /\ threads[GEN][t].pc = "l179"
    /\ threads[GEN][t].rows # <<>>
    /\ LET th == threads[GEN][t]
           row_id == Head(th.rows)
           row_data == format_row_data(tab_class, RemoteRow(tab_class, row_id), parents)
       IN \E ok \in BOOLEAN :
             IF ~ok /\ tab_class # "messages"
             THEN /\ threads' = [threads EXCEPT ![GEN][t] = DeadThread]
                  /\ UNCHANGED table
             ELSE IF row_data = NoRow
             THEN /\ table' = table \ {row_id}
                  /\ threads' = [threads EXCEPT
                                   ![GEN][t].rows = Tail(th.rows),
                                   ![GEN][t].done = Append(@, [id |-> row_id, rpc |-> "delete"])]
             ELSE /\ threads' = [threads EXCEPT
                                   ![GEN][t].pc = "l188",
                                   ![GEN][t].rows = Tail(th.rows),
                                   ![GEN][t].done = Append(@, [id |-> row_id, rpc |-> ""]),
                                   ![GEN][t].row = StoreRow(row_id, row_data)]
                  /\ UNCHANGED table
    /\ UNCHANGED <<config_vars, has_rpc, now, parents, last_load_time,
                   loader_thread, lock, is_destroyed, widget_vars, idle_queue, gui_vars,
                   csv_file>>

\* lines 178-187: the next row is formatted; one that formats to None is deleted
\* from the remote table; before a row is queued the thread returns when the tab
\* was destroyed
LoaderFormatRow(t) ==
    /\ threads[GEN][t].pc = "l179"
    /\ threads[GEN][t].rows # <<>>
    /\ LET th == threads[GEN][t]
           row_id == Head(th.rows)
           row_data == format_row_data(tab_class, RemoteRow(tab_class, row_id), parents)
       IN \E ok \in BOOLEAN :
             IF ~ok /\ tab_class # "messages"
             THEN \* an RPC call of format_row_data, or the delete, raised
                  /\ threads' = [threads EXCEPT ![GEN][t] = DeadThread]
                  /\ UNCHANGED table
             ELSE IF row_data = NoRow
             THEN /\ table' = table \ {row_id}
                  /\ threads' = [threads EXCEPT
                                   ![GEN][t].rows = Tail(th.rows),
                                   ![GEN][t].done = Append(@, [id |-> row_id, rpc |-> "delete"])]
             ELSE IF is_destroyed
             THEN /\ threads' = [threads EXCEPT ![GEN][t] = DeadThread]
                  /\ UNCHANGED table
             ELSE /\ threads' = [threads EXCEPT
                                   ![GEN][t].pc = "l188",
                                   ![GEN][t].rows = Tail(th.rows),
                                   ![GEN][t].done = Append(@, [id |-> row_id, rpc |-> ""]),
                                   ![GEN][t].row = StoreRow(row_id, row_data)]
                  /\ UNCHANGED table
    /\ UNCHANGED <<config_vars, has_rpc, now, parents, last_load_time,
                   loader_thread, lock, is_destroyed, widget_vars, idle_queue, gui_vars,
                   csv_file>>

\* variant of LoaderQueueAppend: the loader calls store.append itself
LoaderAppendDirect(t) ==
    /\ threads[GEN][t].pc = "l188"
    /\ store' = [store EXCEPT !.rows = Append(@, threads[GEN][t].row)]
    /\ threads' = [threads EXCEPT ![GEN][t].pc = "l179", ![GEN][t].row = <<>>]
    /\ UNCHANGED <<config_vars, has_rpc, now, remote_vars, last_load_time,
                   loader_thread, lock, is_destroyed, sensitive, graph_drawn, idle_queue,
                   gui_vars, csv_file>>

\* line 188, in the loader: queue store.append(row_data)
LoaderQueueAppend(t) ==
    /\ threads[GEN][t].pc = "l188"
    /\ glib_idle_add_wait(GEN, t, "w188")
    /\ UNCHANGED <<config_vars, has_rpc, now, remote_vars, last_load_time,
                   loader_thread, lock, is_destroyed, widget_vars, gui_vars, csv_file>>

\* line 188, in the main loop: the row is appended
RunStoreAppend ==
    /\ Dispatch(GEN, "w188")
    /\ LET t == Head(idle_queue)[2]
       IN /\ store' = [store EXCEPT !.rows = Append(@, threads[GEN][t].row)]
          /\ threads' = [threads EXCEPT ![GEN][t].pc = "l179", ![GEN][t].row = <<>>]
    /\ UNCHANGED <<config_vars, has_rpc, now, remote_vars, last_load_time,
                   loader_thread, lock, is_destroyed, sensitive, graph_drawn, gui_vars,
                   csv_file>>

\* variant of LoaderQueueSensitive: line 190 comes before line 189, the load time is
\* recorded when the call that re-sensitises the treeview is queued
LoaderQueueSensitiveRecording(t) ==
    /\ threads[GEN][t].pc = "l179"
    /\ threads[GEN][t].rows = <<>>
    /\ glib_idle_add_wait(GEN, t, "w189")
    /\ last_load_time' = [last_load_time EXCEPT ![GEN] = now]
    /\ UNCHANGED <<config_vars, has_rpc, now, remote_vars,
                   loader_thread, lock, is_destroyed, widget_vars, gui_vars, csv_file>>

\* line 189, in the loader, the rows used up: queue set_property('sensitive', True)
LoaderQueueSensitive(t) ==
    /\ threads[GEN][t].pc = "l179"
    /\ threads[GEN][t].rows = <<>>
    /\ glib_idle_add_wait(GEN, t, "w189")
    /\ UNCHANGED <<config_vars, has_rpc, now, remote_vars, last_load_time,
                   loader_thread, lock, is_destroyed, widget_vars, gui_vars, csv_file>>

\* line 189, in the main loop: the treeview becomes sensitive again
RunSetSensitive ==
    /\ Dispatch(GEN, "w189")
    /\ sensitive' = TRUE
    /\ threads' = [threads EXCEPT ![GEN][Head(idle_queue)[2]].pc = "l190"]
    /\ UNCHANGED <<config_vars, has_rpc, now, remote_vars, last_load_time,
                   loader_thread, lock, is_destroyed, store, graph_drawn, gui_vars,
                   csv_file>>

\* line 190: the load time is recorded and the thread ends
LoaderRecordTime(t) ==
    /\ threads[GEN][t].pc = "l190"
    /\ last_load_time' = [last_load_time EXCEPT ![GEN] = now]
    /\ threads' = [threads EXCEPT ![GEN][t] = DeadThread]
    /\ UNCHANGED <<config_vars, has_rpc, now, remote_vars, loader_thread,
                   lock, is_destroyed, widget_vars, idle_queue, gui_vars, csv_file>>

\* ------------------------------------ CampaignViewDashboardTab.loader_thread_routine
\* lines 381-382, in the loader: queue graph.refresh(info_cache) for the next graph
DashLoaderNextGraph(t) ==
    /\ threads[DASH][t].pc = "d381"
    /\ threads[DASH][t].g <= MaxGraphs
    /\ glib_idle_add_wait(DASH, t, "w382")
    /\ UNCHANGED <<config_vars, has_rpc, now, remote_vars, last_load_time,
                   loader_thread, lock, is_destroyed, widget_vars, gui_vars, csv_file>>

\* variant of RunGraphRefresh: what graph.refresh returns is dropped, info_cache stays
\* as it was (line 382 without the assignment)
RunGraphRefreshDroppingCache ==
    /\ Dispatch(DASH, "w382")
    /\ LET t == Head(idle_queue)[2]
           th == threads[DASH][t]
       IN /\ graph_drawn' = [graph_drawn EXCEPT ![th.g] = TRUE]
          /\ threads' = [threads EXCEPT ![DASH][t].pc = "d381",
                                        ![DASH][t].g = th.g + 1]
    /\ UNCHANGED <<config_vars, has_rpc, now, remote_vars, last_load_time,
                   loader_thread, lock, is_destroyed, store, sensitive, gui_vars, csv_file>>

\* line 382, in the main loop: the graph is refreshed and hands the cache back
RunGraphRefresh ==
    /\ Dispatch(DASH, "w382")
    /\ LET t == Head(idle_queue)[2]
           th == threads[DASH][t]
       IN /\ graph_drawn' = [graph_drawn EXCEPT ![th.g] = TRUE]
          /\ threads' = [threads EXCEPT ![DASH][t].pc = "d381",
                                        ![DASH][t].g = th.g + 1,
                                        ![DASH][t].cache = Append(th.cache, th.g)]
    /\ UNCHANGED <<config_vars, has_rpc, now, remote_vars, last_load_time,
                   loader_thread, lock, is_destroyed, store, sensitive, gui_vars, csv_file>>

\* line 383, the graphs used up: the load time is recorded and the thread ends
DashLoaderRecordTime(t) ==
    /\ threads[DASH][t].pc = "d381"
    /\ threads[DASH][t].g > MaxGraphs
    /\ last_load_time' = [last_load_time EXCEPT ![DASH] = now]
    /\ threads' = [threads EXCEPT ![DASH][t] = DeadThread]
    /\ UNCHANGED <<config_vars, has_rpc, now, remote_vars, loader_thread,
                   lock, is_destroyed, widget_vars, idle_queue, gui_vars, csv_file>>

\* --------------------------------------------------------------- signal handlers
\* signal_button_clicked_refresh of either tab (lines 192-193, 385-386)
signal_button_clicked_refresh(tb) ==
    /\ TopLevel
    /\ tb = GEN => ~is_destroyed
    /\ Invoke(<<Call(tb, TRUE)>>)
    /\ UNCHANGED <<config_vars, has_rpc, now, remote_vars, last_load_time,
                   loader_vars, is_destroyed, widget_vars, idle_queue, dialog, csv_file>>

\* variant of prompt_to_delete_row: lines 114-116 are missing
prompt_to_delete_row_while_loading ==
    /\ UNCHANGED dialog
    /\ \E sel \in 0..Len(store.rows), yes \in BOOLEAN, ok \in BOOLEAN :
          IF sel > 0 /\ yes /\ has_rpc /\ ok
          THEN /\ table' = table \ {RowIdOf(store.rows[sel][1])}
               /\ Invoke(<<Call(GEN, TRUE)>>)
          ELSE UNCHANGED <<table, gpc, gcall, gpending>>

\* _prompt_to_delete_row, lines 113-126: refuse while loading; else, when a row is
\* selected (sel > 0) and 'Delete This Row?' is answered yes, the delete RPC (which
\* raises without parent.rpc or when the call fails) and a forced load.  The modal
\* yes/no dialog is answered within the step: nothing that runs while it is open
\* changes what lines 125-126 read.
prompt_to_delete_row ==
    IF LoaderAlive(GEN)
    THEN /\ dialog' = "Can Not Delete Rows While Loading"
         /\ UNCHANGED <<table, gpc, gcall, gpending>>
    ELSE /\ UNCHANGED dialog
         /\ \E sel \in 0..Len(store.rows), yes \in BOOLEAN, ok \in BOOLEAN :
               IF sel > 0 /\ yes /\ has_rpc /\ ok
               THEN /\ table' = table \ {RowIdOf(store.rows[sel][1])}
                    /\ Invoke(<<Call(GEN, TRUE)>>)
               ELSE UNCHANGED <<table, gpc, gcall, gpending>>

\* signal_treeview_key_pressed, lines 223-230
signal_treeview_key_pressed(keyval) ==
    /\ TopLevel
    /\ ~is_destroyed
    /\ IF keyval = "F5"
       THEN Invoke(<<Call(GEN, TRUE)>>) /\ UNCHANGED <<dialog, table>>
       ELSE prompt_to_delete_row
    /\ UNCHANGED <<config_vars, has_rpc, now, parents, last_load_time,
                   loader_vars, is_destroyed, widget_vars, idle_queue, csv_file>>

\* the 'Delete' item of the popup menu, line 109
popup_menu_delete ==
    /\ TopLevel
    /\ ~is_destroyed
    /\ prompt_to_delete_row
    /\ UNCHANGED <<config_vars, has_rpc, now, parents, last_load_time,
                   loader_vars, is_destroyed, widget_vars, idle_queue, csv_file>>

\* signal_button_clicked_export, lines 195-206: refuse while loading; else the file
\* chooser answers and, unless it was cancelled, the store is written to the file
signal_button_clicked_export ==
    /\ TopLevel
    /\ ~is_destroyed
    /\ IF LoaderAlive(GEN)
       THEN dialog' = "Can Not Export Rows While Loading" /\ UNCHANGED csv_file
       ELSE /\ UNCHANGED dialog
            /\ \E response \in BOOLEAN :
                  IF response
                  THEN csv_file' = [written |-> TRUE]
                  ELSE UNCHANGED csv_file
    /\ UNCHANGED <<config_vars, has_rpc, now, remote_vars, last_load_time,
                   loader_vars, is_destroyed, widget_vars, idle_queue, gpc, gcall,
                   gpending>>

\* gui_utilities.show_dialog_warning returns: the warning is dismissed
WarningDismissed ==
    /\ MainLoop
    /\ dialog # NoDialog
    /\ dialog' = NoDialog
    /\ UNCHANGED <<config_vars, has_rpc, now, remote_vars, last_load_time,
                   loader_vars, is_destroyed, widget_vars, idle_queue, gpc, gcall,
                   gpending, csv_file>>

\* signal_destroy, lines 208-210: set the event; join when the loader is alive
signal_destroy ==
    /\ TopLevel
    /\ ~is_destroyed
    /\ is_destroyed' = TRUE
    /\ gpc' = IF LoaderAlive(GEN) THEN "join" ELSE "idle"
    /\ UNCHANGED <<config_vars, has_rpc, now, remote_vars, last_load_time,
                   loader_vars, widget_vars, idle_queue, gcall, gpending, dialog, csv_file>>

\* signal_destroy, line 211: row_loader_thread.join() returns once the thread ended
JoinReturns ==
    /\ gpc = "join"
    /\ ~is_alive(GEN, loader_thread[GEN])
    /\ gpc' = "idle"
    /\ UNCHANGED <<config_vars, has_rpc, now, remote_vars, last_load_time,
                   loader_vars, is_destroyed, widget_vars, idle_queue, gcall, gpending,
                   dialog, csv_file>>

\* variant of loader_idle_routine: it returns False, GLib drops the timeout
loader_idle_routine_once ==
    /\ MainLoop
    /\ timeout_source
    /\ Invoke(<<Call(DASH, TRUE)>>)
    /\ timeout_source' = FALSE
    /\ UNCHANGED <<tab_class, refresh_frequency, has_rpc, now, remote_vars, last_load_time,
                   loader_vars, is_destroyed, widget_vars, idle_queue, dialog, csv_file>>

\* CampaignViewDashboardTab.loader_idle_routine, lines 372-376: the GLib timeout
\* set up in line 348 fires; it returns True and so stays scheduled
loader_idle_routine ==
    /\ MainLoop
    /\ timeout_source
    /\ Invoke(<<Call(DASH, TRUE)>>)
    /\ timeout_source' = TRUE
    /\ UNCHANGED <<tab_class, refresh_frequency, has_rpc, now, remote_vars, last_load_time,
                   loader_vars, is_destroyed, widget_vars, idle_queue, dialog, csv_file>>

\* CampaignViewTab.signal_kpc_campaign_set, lines 495-498: a campaign was
\* selected; every tab is force-loaded, in the order the tabs dict yields them
signal_kpc_campaign_set ==
    /\ TopLevel
    /\ has_rpc
    /\ \E first \in Tabs :
          Invoke(<<Call(first, TRUE), Call(CHOOSE tb \in Tabs : tb # first, TRUE)>>)
    /\ UNCHANGED <<config_vars, has_rpc, now, remote_vars, last_load_time, loader_vars,
                   is_destroyed, widget_vars, idle_queue, dialog, csv_file>>

\* CampaignViewTab._tab_changed, lines 500-509: nothing without parent.rpc, else the
\* tab switched to is loaded unless it is fresh
tab_changed(tb) ==
    /\ TopLevel
    /\ tb = GEN => ~is_destroyed
    /\ has_rpc
    /\ Invoke(<<Call(tb, FALSE)>>)
    /\ UNCHANGED <<config_vars, has_rpc, now, remote_vars, last_load_time,
                   loader_vars, is_destroyed, widget_vars, idle_queue, dialog, csv_file>>

\* ------------------------------------------------------------------ environment
\* a second passes
Tick ==
    /\ now < MaxTime
    /\ now' = now + 1
    /\ UNCHANGED <<config_vars, has_rpc, remote_vars, last_load_time,
                   loader_vars, is_destroyed, widget_vars, idle_queue, gui_vars, csv_file>>

\* the client connects: the parent gets its rpc attribute
ServerConnect ==
    /\ ~has_rpc
    /\ TopLevel
    /\ has_rpc' = TRUE
    /\ UNCHANGED <<config_vars, now, remote_vars, last_load_time,
                   loader_vars, is_destroyed, widget_vars, idle_queue, gui_vars, csv_file>>

\* a row of the referenced table (a message, a deployment) is deleted on the server
RemoteDeleteParent(p) ==
    /\ tab_class # "messages"
    /\ p \in parents
    /\ parents' = parents \ {p}
    /\ UNCHANGED <<config_vars, has_rpc, now, table, last_load_time,
                   loader_vars, is_destroyed, widget_vars, idle_queue, gui_vars, csv_file>>

\* ------------------------------------------------------------------ specification
\* the steps of the GTK main thread that act on the state the tabs share with their
\* loaders (signal_button_clicked_export, whose only effect is the file it writes,
\* is a step of RowSpec)
GuiNext ==
    \/ GenericLoadCheck
    \/ GenericLoadStart
    \/ GenericLoadRelease
    \/ DashboardLoadCheck
    \/ DashboardLoadStart
    \/ RunSetInsensitive
    \/ RunStoreAppend
    \/ RunSetSensitive
    \/ RunGraphRefresh
    \/ \E tb \in Tabs : signal_button_clicked_refresh(tb)
    \/ \E keyval \in {"F5", "Delete"} : signal_treeview_key_pressed(keyval)
    \/ popup_menu_delete
    \/ WarningDismissed
    \/ signal_destroy
    \/ JoinReturns
    \/ loader_idle_routine
    \/ signal_kpc_campaign_set
    \/ \E tb \in Tabs : tab_changed(tb)

LoaderNext ==
    \E t \in ThreadIds :
        \/ LoaderQueueInsensitive(t)
        \/ LoaderFetch(t)
        \/ LoaderFormatRow(t)
        \/ LoaderQueueAppend(t)
        \/ LoaderQueueSensitive(t)
        \/ LoaderRecordTime(t)
        \/ DashLoaderNextGraph(t)
        \/ DashLoaderRecordTime(t)

EnvNext ==
    \/ Tick
    \/ ServerConnect
    \/ \E p \in ParentIds : RemoteDeleteParent(p)

Next == GuiNext \/ LoaderNext \/ EnvNext

Spec == Init /\ [][Next]_vars

\* one generic tab of any of the four subclasses, on its own: its buttons, keys and
\* popup menu, the loader, the idle callbacks, the server
RowNext ==
    \/ signal_button_clicked_refresh(GEN)
    \/ \E keyval \in {"F5", "Delete"} : signal_treeview_key_pressed(keyval)
    \/ popup_menu_delete
    \/ signal_button_clicked_export
    \/ WarningDismissed
    \/ GenericLoadCheck
    \/ GenericLoadStart
    \/ GenericLoadRelease
    \/ RunSetInsensitive
    \/ RunStoreAppend
    \/ RunSetSensitive
    \/ \E t \in ThreadIds :
          \/ LoaderQueueInsensitive(t)
          \/ LoaderFetch(t)
          \/ LoaderFormatRow(t)
          \/ LoaderQueueAppend(t)
          \/ LoaderQueueSensitive(t)
          \/ LoaderRecordTime(t)
    \/ ServerConnect
    \/ \E p \in ParentIds : RemoteDeleteParent(p)

RowSpec == Start(GenericTabs) /\ [][RowNext]_vars

\* ========================================================================= claims
\* the thread objects of tab tb that are running, read off the thread table
Running(tb) == {t \in ThreadIds : threads[tb][t].pc \notin {"none", "dead"}}

\* the main thread leaves the statement it is at (only its own steps change gpc)
GuiLeaves(pc) == gpc = pc /\ gpc' # pc

\* C1: at most one loader thread of a tab is alive at any time, whatever the
\* interleaving of refresh clicks, F5, tab switches, campaign-set events, confirmed
\* deletions and timer ticks.
C1_AtMostOneLoader == \A tb \in Tabs : Cardinality(Running(tb)) <= 1

\* a forced load of the dashboard reaches its thread test while the loaders of both
\* tabs are running
C1_Witness ==
    /\ gpc = "d367"
    /\ Running(DASH) # {}
    /\ Running(GEN) # {}

\* C2: a non-forced load_campaign_information made while
\* (now - last_load_time) < refresh_frequency returns without clearing the store,
\* creating or starting a thread or touching last_load_time; and a tab that has
\* never been loaded is never seen as fresh, last_load_time starting at -inf.
C2_Debounce ==
    /\ [][\A tb \in Tabs :
             (/\ GuiLeaves(Entry(tb))
              /\ ~gcall.force
              /\ (now - last_load_time[tb]) < refresh_frequency)
             => /\ gpc' = "idle"
                /\ UNCHANGED <<store, loader_thread, threads, lock, last_load_time>>]_vars
    /\ [](\A tb \in Tabs :
             loader_thread[tb] = 0 => ~((now - last_load_time[tb]) < refresh_frequency))

\* a tab switch reaches the time-to-live test of the generic tab while its rows are
\* fresh
C2_Witness ==
    /\ gpc = "g151"
    /\ ~gcall.force
    /\ (now - last_load_time[GEN]) < refresh_frequency
    /\ store.rows # <<>>

\* C3: a forced load_campaign_information made while no loader of the tab is alive
\* (and, for the dashboard, while the parent has its rpc attribute) starts a loader
\* thread, whatever last_load_time and refresh_frequency are.
C3_ForceLoads ==
    /\ [][(GuiLeaves("g151") /\ gcall.force /\ Running(GEN) = {}) => gpc' = "g155"]_vars
    /\ [][GuiLeaves("g155") =>
             /\ loader_thread'[GEN] \in Running(GEN)'
             /\ loader_thread'[GEN] \notin Running(GEN)]_vars
    /\ [][(GuiLeaves("d361") /\ gcall.force /\ has_rpc) => gpc' = "d367"]_vars
    /\ [][(GuiLeaves("d367") /\ Running(DASH) = {}) =>
             loader_thread'[DASH] \in Running(DASH)']_vars

\* a forced load has started a loader of the generic tab although its rows were fresh
C3_Witness ==
    /\ gpc = "g167"
    /\ gcall.force
    /\ (now - last_load_time[GEN]) < refresh_frequency
    /\ loader_thread[GEN] \in Running(GEN)

\* C4: in both kinds of tab the thread-already-running test is made with the tab's
\* loader lock held, in the critical section that also creates and starts the thread.
C4_TestUnderLock ==
    /\ (gpc = "g151" /\ gcall.force) => lock[GEN]
    /\ gpc = "d367" => lock[DASH]

\* the dashboard loaded by its timer alone, beside a generic tab that is refreshed
\* and destroyed
TimerNext ==
    \/ loader_idle_routine
    \/ DashboardLoadCheck
    \/ DashboardLoadStart
    \/ RunGraphRefresh
    \/ \E t \in ThreadIds : DashLoaderNextGraph(t) \/ DashLoaderRecordTime(t)
    \/ ServerConnect
    \/ signal_button_clicked_refresh(GEN)
    \/ GenericLoadCheck
    \/ GenericLoadStart
    \/ GenericLoadRelease
    \/ RunSetInsensitive
    \/ RunStoreAppend
    \/ RunSetSensitive
    \/ \E t \in ThreadIds :
          \/ LoaderQueueInsensitive(t)
          \/ LoaderFetch(t)
          \/ LoaderFormatRow(t)
          \/ LoaderQueueAppend(t)
          \/ LoaderQueueSensitive(t)
          \/ LoaderRecordTime(t)
    \/ signal_destroy
    \/ JoinReturns

\* the main thread goes on with the handler it is in
MainThreadRuns ==
    \/ GenericLoadCheck
    \/ GenericLoadStart
    \/ GenericLoadRelease
    \/ DashboardLoadCheck
    \/ DashboardLoadStart
    \/ JoinReturns

\* the main loop dispatches the idle source at the head of its queue
IdleDispatch == RunSetInsensitive \/ RunStoreAppend \/ RunSetSensitive \/ RunGraphRefresh

\* a loader thread is scheduled
ThreadRuns(t) ==
    \/ LoaderQueueInsensitive(t)
    \/ LoaderFetch(t)
    \/ LoaderFormatRow(t)
    \/ LoaderQueueAppend(t)
    \/ LoaderQueueSensitive(t)
    \/ LoaderRecordTime(t)
    \/ DashLoaderNextGraph(t)
    \/ DashLoaderRecordTime(t)

\* threads are scheduled, a handler that is running goes on, and whenever the main
\* loop keeps coming back to idle it dispatches its timeout and its idle sources
TimerSpec ==
    /\ Init
    /\ [][TimerNext]_vars
    /\ WF_vars(MainThreadRuns)
    /\ \A t \in ThreadIds : WF_vars(ThreadRuns(t))
    /\ SF_vars(IdleDispatch)
    /\ SF_vars(loader_idle_routine)

\* graph g is refreshed by the idle callback of the dashboard loader
Refreshed(g) ==
    /\ graph_drawn'[g]
    /\ \E t \in ThreadIds :
          /\ threads[DASH][t].pc = "w382"
          /\ threads[DASH][t].g = g
          /\ threads'[DASH][t].g = g + 1

\* C8: the timeout of the dashboard never stops: loader_idle_routine stays scheduled
\* and, while the parent has its rpc attribute and every loader terminates, every
\* graph of the dashboard is refreshed infinitely often.
C8_TimerNeverStops ==
    /\ []timeout_source
    /\ (/\ <>[]has_rpc
        /\ \A tb \in Tabs : []<>(Running(tb) = {}))
       => \A g \in Graphs : []<><<Refreshed(g)>>_vars

\* all graphs have been drawn and a later tick of the timer has started the loader
\* again, which waits for the refresh of the first graph
C8_Witness ==
    /\ \A g \in Graphs : graph_drawn[g]
    /\ timeout_source
    /\ \E t \in ThreadIds : threads[DASH][t].pc = "w382" /\ threads[DASH][t].g = 1

\* a call queued with glib_idle_add_wait that only the GTK main loop can complete
WaitsForMainLoop(tb, t) == threads[tb][t].pc \in {"w177", "w188", "w189", "w382"}

\* C5: teardown terminates: signal_destroy, which sets is_destroyed and joins the
\* loader on the main thread, returns and the loader exits, wherever in the load the
\* widget is destroyed.  The main thread dispatches nothing while it is in join(), so
\* this needs that a loader being joined never waits for the main loop.
C5_TeardownTerminates ==
    gpc = "join" => \A t \in Running(GEN) : ~WaitsForMainLoop(GEN, t)

\* C6: once is_destroyed is set no row is appended to the list store any more, and a
\* loader that gives up a load because of it ends without writing last_load_time.
C6_NothingAfterDestroy ==
    /\ [][is_destroyed => (store'.rows = store.rows \/ store'.rows = <<>>)]_vars
    /\ [][\A t \in ThreadIds :
             (/\ is_destroyed
              /\ threads[GEN][t].pc = "l179"
              /\ threads[GEN][t].rows # <<>>
              /\ format_row_data(tab_class, RemoteRow(tab_class, Head(threads[GEN][t].rows)),
                                 parents) # NoRow
              /\ threads'[GEN][t] # threads[GEN][t])
             => /\ threads'[GEN][t].pc = "dead"
                /\ last_load_time' = last_load_time]_vars

\* the tab was destroyed and a load started after that has fetched rows it can format
C6_Witness ==
    /\ is_destroyed
    /\ gpc = "idle"
    /\ \E t \in ThreadIds :
          /\ threads[GEN][t].pc = "l179"
          /\ threads[GEN][t].rows # <<>>
          /\ ParentOf(Head(threads[GEN][t].rows)) \in parents

\* C7, as stated: every change of the store, of 'sensitive' and of the graphs is made
\* by the main thread, and the loader only fetches, formats and writes last_load_time;
\* it changes nothing on the server.
C7_LoaderOnlyFetches ==
    [][/\ widget_vars' # widget_vars => GuiNext
       /\ LoaderNext => UNCHANGED <<widget_vars, table, parents>>]_vars

\* C7, amended: every change of the store, of 'sensitive' and of the graphs is made
\* by the main thread; the loader fetches, formats, writes last_load_time, queues
\* calls for the main loop, and deletes from the remote table the rows that
\* format_row_data turns into None.  (Every step of a loader moves its thread.)
C7_Marshalled ==
    [][/\ widget_vars' # widget_vars => GuiNext
       /\ (threads' # threads /\ LoaderNext) =>
            /\ UNCHANGED <<widget_vars, gui_vars, parents, lock, loader_thread,
                           is_destroyed, csv_file, has_rpc, now>>
            /\ table' # table =>
                 \E t \in ThreadIds :
                    /\ threads[GEN][t].pc = "l179"
                    /\ threads[GEN][t].rows # <<>>
                    /\ table' = table \ {Head(threads[GEN][t].rows)}
                    /\ format_row_data(tab_class,
                                       RemoteRow(tab_class, Head(threads[GEN][t].rows)),
                                       parents) = NoRow]_vars

\* a load has deleted the first row it fetched, which formatted to None, and goes on
C7_Witness ==
    /\ parents = {}
    /\ 1 \notin table
    /\ store.rows = <<>>
    /\ ~sensitive
    /\ \E t \in ThreadIds :
          /\ threads[GEN][t].pc = "l179"
          /\ threads[GEN][t].rows # <<>>
          /\ Head(threads[GEN][t].rows) = 2

\* C9: _prompt_to_delete_row and signal_button_clicked_export, invoked while the
\* tab's loader is alive, only show a warning dialog: no delete RPC, no reload, no
\* file written, store and last_load_time unchanged.
C9_RefusedWhileLoading ==
    [][(/\ loader_thread[GEN] \in Running(GEN)
        /\ \/ popup_menu_delete
           \/ signal_treeview_key_pressed("Delete")
           \/ signal_button_clicked_export)
       => /\ dialog' \in {"Can Not Delete Rows While Loading",
                          "Can Not Export Rows While Loading"}
          /\ UNCHANGED <<table, parents, store, sensitive, last_load_time, loader_thread,
                         threads, lock, idle_queue, csv_file, gpc, gcall, gpending,
                         is_destroyed>>]_vars

\* a warning is open while the loader, which has appended a row already, runs
C9_Witness ==
    /\ dialog # NoDialog
    /\ loader_thread[GEN] \in Running(GEN)
    /\ store.rows # <<>>
    /\ ~csv_file.written

\* C10: every row of the list store has len(view_columns) + 1 entries, as many as the
\* store has columns; entry 0 is the string of the id of a remote row and the
\* others are the values of format_row_data for that row, in order, as strings, with
\* '' for None.
C10_RowShape ==
    \A k \in 1..Len(store.rows) :
       LET r == store.rows[k]
           n == Len(view_columns(tab_class))
       IN /\ Len(r) = n + 1
          /\ Len(r) = store.cols
          /\ \A j \in 1..Len(r) : r[j].t = "str"
          /\ \E i \in RowIds :
                LET f == format_row_data(tab_class, RemoteRow(tab_class, i), ParentIds)
                IN /\ r[1] = PyStr(ToString(i))
                   /\ Len(f) = n
                   /\ \A j \in 1..n :
                         r[j + 1] = IF f[j].t = "NoneType" THEN PyStr("")
                                    ELSE IF f[j].t = "int" THEN PyStr(ToString(f[j].i))
                                    ELSE f[j]

\* the deaddrop tab holds two rows; a None of the remote row shows as ''
C10_Witness ==
    /\ tab_class = "deaddrop_connections"
    /\ Len(store.rows) >= 2
    /\ store.rows[1][7] = PyStr("")
    /\ store.rows[2][5] = PyStr("bob")

\* C11: a forced reload request on a tab that is not destroyed is never lost: a load
\* whose remote fetch begins after the request completes, also when the request
\* comes while an earlier loader is alive.  For that, a forced call made when the
\* loader had sent its fetch already has to go on to start a new loader.
C11_ForcedReloadNotLost ==
    [][(GuiLeaves("g151") /\ gcall.force /\ gcall.busy /\ ~is_destroyed)
       => gpc' = "g155"]_vars

\* the row was handed to store.append (no delete RPC was sent for it)
Appended(e) == e.rpc = ""

\* C12: when a loader of a generic tab has run to completion the list store holds
\* exactly one row for each fetched remote row that format_row_data gave a value
\* for, in the order of the remote table, none left from an earlier load and none
\* twice.
C12_StoreIsTheLoad ==
    \A t \in ThreadIds :
       threads[GEN][t].pc = "l190" =>
          LET kept == SelectSeq(threads[GEN][t].done, Appended)
          IN /\ threads[GEN][t].rows = <<>>
             /\ Len(store.rows) = Len(kept)
             /\ \A k \in 1..Len(kept) : store.rows[k][1] = PyStr(ToString(kept[k].id))
             /\ \A j, k \in 1..Len(store.rows) : j < k => store.rows[j] # store.rows[k]

\* a second load has run to completion and has put rows into the store
C12_Witness ==
    /\ last_load_time[GEN] >= 0
    /\ store.rows # <<>>
    /\ \E t \in ThreadIds : threads[GEN][t].pc = "l190"

\* C13: last_load_time is written only by a loader that has finished its whole load
\* (generic tab: every row appended and the treeview sensitive again; dashboard:
\* every graph refreshed); starting a load, a debounced or skipped call and a load
\* given up after destroy leave it unchanged; its value never decreases.
C13_LoadTimeByFinishedLoader ==
    [][\A tb \in Tabs :
          last_load_time'[tb] # last_load_time[tb] =>
             /\ last_load_time'[tb] > last_load_time[tb]
             /\ gpc' = gpc
             /\ \E t \in ThreadIds :
                   /\ threads[tb][t].pc \notin {"none", "dead"}
                   /\ threads'[tb][t].pc = "dead"
                   /\ tb = GEN =>
                        /\ threads[GEN][t].rows = <<>>
                        /\ Len(store.rows) = Len(SelectSeq(threads[GEN][t].done, Appended))
                        /\ sensitive
                        /\ idle_queue = <<>> \/ Head(idle_queue)[1] # GEN
                   /\ tb = DASH =>
                        /\ threads[DASH][t].cache = [g \in Graphs |-> g]
                        /\ \A g \in Graphs : graph_drawn[g]]_vars

\* both tabs have recorded a load, the dashboard after the generic tab
C13_Witness ==
    /\ last_load_time[GEN] >= 0
    /\ last_load_time[DASH] > last_load_time[GEN]
    /\ store.rows # <<>>
    /\ Running(GEN) = {}
    /\ Running(DASH) = {}

\* the ids in the first column of the rows of the store
StoreIds == {RowIdOf(store.rows[k][1]) : k \in 1..Len(store.rows)}

\* C14: during a load a remote row for which format_row_data returns None is never
\* appended to the store and exactly one delete RPC is sent for its id; for a row
\* with a value no delete RPC is sent.
C14_NoneRowsDeletedOnce ==
    /\ [](\A t \in ThreadIds :
             LET done == threads[GEN][t].done
             IN /\ \A j, k \in 1..Len(done) : j < k => done[j].id # done[k].id
                /\ \A k \in 1..Len(done) :
                      done[k].rpc = "delete" =>
                         /\ done[k].id \notin StoreIds
                         /\ done[k].id \notin table
                         /\ \A j \in 1..Len(threads[GEN][t].rows) :
                               threads[GEN][t].rows[j] # done[k].id)
    /\ [][\A t \in ThreadIds :
             (/\ threads[GEN][t].pc = "l179"
              /\ threads[GEN][t].rows # <<>>
              /\ threads'[GEN][t] # threads[GEN][t]
              /\ threads'[GEN][t].pc # "dead")
             => LET th == threads[GEN][t]
                    row_id == Head(th.rows)
                IN IF format_row_data(tab_class, RemoteRow(tab_class, row_id), parents) = NoRow
                   THEN /\ threads'[GEN][t].done = Append(th.done, [id |-> row_id, rpc |-> "delete"])
                        /\ row_id \in table
                        /\ table' = table \ {row_id}
                        /\ threads'[GEN][t].pc = "l179"
                        /\ threads'[GEN][t].row = <<>>
                        /\ store' = store
                   ELSE /\ threads'[GEN][t].done = Append(th.done, [id |-> row_id, rpc |-> ""])
                        /\ table' = table]_vars

\* a load of the credentials tab appended its first row and, the message gone by
\* then, sent the delete RPC for its second
C14_Witness ==
    /\ tab_class = "credentials"
    /\ store.rows # <<>>
    /\ \E t \in ThreadIds :
          /\ Len(threads[GEN][t].done) = 2
          /\ threads[GEN][t].done[1].rpc = ""
          /\ threads[GEN][t].done[2].rpc = "delete"

\* C15: the treeview of a generic tab is insensitive only while a load is in progress:
\* whenever the tab is not destroyed and its loader is not alive, 'sensitive' is
\* True, also after a loader that ended because an RPC call or format_row_data failed.
C15_SensitiveWhenIdle ==
    (~is_destroyed /\ Running(GEN) = {}) => sensitive

\* the calls a tab's loaders have queued for the main loop
Queued(tb) == {k \in 1..Len(idle_queue) : idle_queue[k][1] = tb}

\* C16: one dashboard load refreshes every graph exactly once, in the order of the
\* graphs list, one at a time; each refresh gets the info_cache the one before it
\* returned, the first an empty one; last_load_time is written only after the last
\* refresh has returned.
C16_GraphsInOrder ==
    /\ [](\A t \in ThreadIds :
             LET th == threads[DASH][t]
             IN th.pc \in {"d381", "w382"} =>
                   /\ th.g \in 1..(MaxGraphs + 1)
                   /\ th.pc = "w382" => th.g \in Graphs
                   /\ th.cache = [k \in 1..(th.g - 1) |-> k])
    /\ [](Cardinality(Queued(DASH)) <= 1)
    /\ [][\A t \in ThreadIds :
             threads'[DASH][t].cache # threads[DASH][t].cache =>
                \/ threads'[DASH][t].cache = <<>>
                \/ /\ threads[DASH][t].pc = "w382"
                   /\ gpc = "idle"
                   /\ threads'[DASH][t].cache =
                         Append(threads[DASH][t].cache, threads[DASH][t].g)
                   /\ threads'[DASH][t].g = threads[DASH][t].g + 1
                   /\ graph_drawn'[threads[DASH][t].g]]_vars
    /\ [][last_load_time'[DASH] # last_load_time[DASH] =>
             /\ Queued(DASH) = {}
             /\ \E t \in ThreadIds :
                   /\ threads[DASH][t].pc = "d381"
                   /\ threads[DASH][t].cache = [g \in Graphs |-> g]
                   /\ threads'[DASH][t].pc = "dead"]_vars

\* the last refresh of a dashboard load has returned, the load time is not yet written
C16_Witness ==
    /\ Queued(DASH) = {}
    /\ \E t \in ThreadIds :
          /\ threads[DASH][t].pc = "d381"
          /\ threads[DASH][t].g = MaxGraphs + 1
          /\ Len(threads[DASH][t].cache) = MaxGraphs
====
